---- MODULE Spec2Model ----
(***************************************************************************)
(* The estimation driver of the hierarchical spatial Durbin model          *)
(* (hlm/lacombe_mcintyre/sdm/model.py): construction of HSDM / Base_HSDM,  *)
(* the truncation bounds of Rho, the starting values, and the sample/draw  *)
(* loop with its trace.                                                    *)
(*                                                                         *)
(* Real numbers are exact fractions <<n, d>> (d > 0; d = 0 is +/-inf).     *)
(* The update kernel (.sample.sample) and the eigenvalue range             *)
(* (utils.speigen_range) live outside model.py.                            *)
(***************************************************************************)
EXTENDS Integers, Sequences, FiniteSets, TLC

\* ---------------------------------------------------------------- bounds
MaxJ == 3          \* largest number of groups J of a weights matrix M
MaxN == 2          \* largest ndraws / n_samples of one call
MaxCalls == 3      \* most invocations of the update kernel in a run
MaxTuning == 2     \* largest tuning option
CycleLen == 1      \* draws per adaptation cycle of the kernel

\* ------------------------------------------------------------- fractions
Abs(x) == IF x < 0 THEN -x ELSE x

Sign(x) == IF x < 0 THEN -1 ELSE IF x > 0 THEN 1 ELSE 0

RECURSIVE Gcd(_, _)
Gcd(a, b) == IF b = 0 THEN a ELSE Gcd(b, a % b)

\* the fraction n/d in lowest terms, d > 0; n/0 is the infinity of n's sign
Frac(n, d) ==
    IF d = 0 THEN <<Sign(n), 0>>
    ELSE LET g == Gcd(Abs(n), Abs(d))
             s == Sign(d)
         IN  <<(s * n) \div g, (s * d) \div g>>

Lt(a, b) == a[1] * b[2] < b[1] * a[2]

Le(a, b) == a[1] * b[2] <= b[1] * a[2]

Mul(a, b) == Frac(a[1] * b[1], a[2] * b[2])

\* a / b for b # 0
Div(a, b) == Frac(a[1] * b[2], a[2] * b[1])

IsInf(a) == a[2] = 0

IsZero(a) == a[1] = 0 /\ a[2] # 0

None == "None"

\* ------------------------------------------------------ module constants
SAMPLERS == <<"Alphas", "Betas", "Sigma2", "Tau2", "Gammas", "Rho">>

Range(s) == {s[i] : i \in 1..Len(s)}

\* defaults of _setup_configs
rho_jump == Frac(1, 2)

rho_ar_low == Frac(4, 10)

rho_ar_hi == Frac(6, 10)

rho_adapt_step == Frac(101, 100)


\* ------------------------------------------------------------ the inputs
\* Row-standardised group-level weights M (rows sum to one), by shape:
\*   complete  : every group neighbours every other, J >= 2
\*   bipartite : a connected bipartite neighbour graph (path, star), J >= 3
\*   lazy      : J = 2, every entry 1/2 (each group is its own neighbour)
Weights ==
    {[kind |-> "complete", J |-> j] : j \in 2..MaxJ}
        \cup {[kind |-> "bipartite", J |-> j] : j \in 3..MaxJ}
        \cup {[kind |-> "lazy", J |-> 2]}

ZeroDiagonal(M) == M.kind # "lazy"

\* the truncate option: 'eigs', 'stable' or an explicit (low, high) pair
Truncates ==
    {[kind |-> "eigs", low |-> Frac(0, 1), high |-> Frac(0, 1)],
     [kind |-> "stable", low |-> Frac(0, 1), high |-> Frac(0, 1)],
     [kind |-> "pair", low |-> Frac(-1, 2), high |-> Frac(1, 2)]}

\* the extra_tracked_params option: absent (None) or a list of names
Extras ==
    {[given |-> FALSE, names |-> <<>>],
     [given |-> TRUE, names |-> <<>>],
     [given |-> TRUE, names |-> <<"Rho_min">>]}

Args ==
    [M : Weights, truncate : Truncates, tuning : 0..MaxTuning,
     extra_tracked_params : Extras, n_samples : 0..MaxN, dimsOK : BOOLEAN]

\* values the random-walk proposal of Rho can land on
Proposals == {Frac(-1, 1), Frac(0, 1), Frac(1, 1)}

\* what one sweep of the kernel can do: fail while evaluating the likelihood
\* of Rho; reject its proposal on the posterior ratio; or propose prop and
\* take it when it is admissible
Outcomes ==
    {[kind |-> "fail", prop |-> Frac(0, 1), acc |-> FALSE],
     [kind |-> "ok", prop |-> Frac(0, 1), acc |-> FALSE]}
        \cup {[kind |-> "ok", prop |-> p, acc |-> TRUE] : p \in Proposals}

\* the two results of 1./0 (a Python float raises, a numpy float gives inf)
ZeroDivisions == {"raise", "inf"}

NoRet == [given |-> FALSE, value |-> <<>>]

\* ------------------------------------------------------------- the state
VARIABLES
    pc,             \* "new", "ready" (constructed) or "failed" (__init__ raised)
    args,           \* the arguments the constructor was called with
    state,          \* self.state
    configs,        \* self.configs
    trace,          \* self.trace: parameter name -> list of recorded values
    traced_params,  \* self.traced_params
    cycles,         \* self.cycles
    hist,           \* counts: completed draws, kernel calls, changes of jump,
                    \* whether a detach was asked for
    lastCall        \* the last call made on the object and how it ended

vars == <<pc, args, state, configs, trace, traced_params, cycles, hist, lastCall>>

NoArgs ==
    [M |-> [kind |-> "complete", J |-> 2],
     truncate |-> [kind |-> "eigs", low |-> Frac(0, 1), high |-> Frac(0, 1)],
     tuning |-> 0, extra_tracked_params |-> [given |-> FALSE, names |-> <<>>],
     n_samples |-> 0, dimsOK |-> TRUE]

NoState ==
    [M |-> NoArgs.M, J |-> 0, Alphas |-> 0, Betas |-> 0, Sigma2 |-> 0, Tau2 |-> 0,
     Gammas |-> 0, Rho |-> Frac(0, 1), Rho_min |-> Frac(0, 1), Rho_max |-> Frac(0, 1)]

NoConfigs ==
    [truncate |-> NoArgs.truncate,
     Rho |-> [jump |-> Frac(0, 1), ar_low |-> Frac(0, 1), ar_hi |-> Frac(0, 1),
              adapt_step |-> Frac(1, 1), rejected |-> 0, accepted |-> 0,
              max_adapt |-> 0, adapt |-> FALSE]]

NoHist == [draws |-> 0, kernelCalls |-> 0, jumpChanges |-> 0, popped |-> FALSE]

\* the object as the methods see it
Self ==
    [state |-> state, configs |-> configs, trace |-> trace,
     traced_params |-> traced_params, cycles |-> cycles, hist |-> hist,
     exc |-> None, ret |-> NoRet]


\* ------------------------------------------------------- outside model.py
\* utils.speigen_range(M): the smallest and the largest eigenvalue of M.
\* A row-standardised M has largest eigenvalue 1; the smallest is -1/(J-1)
\* for the complete graph, -1 for a bipartite graph and 0 for the lazy pair.
speigen_range(M) ==
    CASE M.kind = "complete" -> <<Frac(-1, M.J - 1), Frac(1, 1)>>
      [] M.kind = "bipartite" -> <<Frac(-1, 1), Frac(1, 1)>>
      [] M.kind = "lazy" -> <<Frac(0, 1), Frac(1, 1)>>

\* the value the k-th sweep of the kernel leaves in the i-th conjugate
\* parameter: a fresh stand-in for a random draw
Fresh(i, k) == 10 * k + i

\* the conjugate draws of one sweep
redraw(self, k) ==
    [self EXCEPT !.hist.kernelCalls = k,
                 !.state.Betas = Fresh(1, k),
                 !.state.Gammas = Fresh(2, k),
                 !.state.Alphas = Fresh(3, k),
                 !.state.Sigma2 = Fresh(4, k),
                 !.state.Tau2 = Fresh(5, k)]

\* a proposal is admissible inside the open interval (Rho_min, Rho_max)
admissible(st, prop) == Lt(st.Rho_min, prop) /\ Lt(prop, st.Rho_max)

\* every trial of the Metropolis step is counted
count_trial(conf, accept) ==
    [conf EXCEPT !.accepted = IF accept THEN @ + 1 ELSE @,
                 !.rejected = IF accept THEN @ ELSE @ + 1]

\* the proposal scale after a cycle with acceptance rate r
rescale(conf, r) ==
    IF Lt(conf.ar_hi, r) THEN Mul(conf.jump, conf.adapt_step)
    ELSE IF Lt(r, conf.ar_low) THEN Div(conf.jump, conf.adapt_step)
    ELSE conf.jump

\* the adaptation of the proposal scale at the end of the c-th sweep: every
\* CycleLen-th sweep ends a cycle, and only the first max_adapt cycles adapt
adapt_jump(conf, c) ==
    IF /\ conf.adapt
       /\ c % CycleLen = 0
       /\ c \div CycleLen <= conf.max_adapt
       /\ conf.accepted + conf.rejected > 0
    THEN rescale(conf, Frac(conf.accepted, conf.accepted + conf.rejected))
    ELSE conf.jump

\* the end of a sweep: Rho, the counters, the proposal scale, the cycle count
finish_sweep(s1, out, accept, conf1, jump1) ==
    [s1 EXCEPT !.state.Rho = IF accept THEN out.prop ELSE @,
               !.configs.Rho = [conf1 EXCEPT !.jump = jump1],
               !.cycles = @ + 1,
               !.hist.jumpChanges = IF jump1 # conf1.jump THEN @ + 1 ELSE @]

metropolis(s1, out, accept, conf1) ==
    finish_sweep(s1, out, accept, conf1, adapt_jump(conf1, s1.cycles + 1))

\* .sample.sample(self): one sweep over all parameters.  The conjugate
\* parameters are redrawn; Rho takes a Metropolis step: a proposal outside
\* (Rho_min, Rho_max) is rejected, one inside is accepted or not.  The sweep
\* can fail while it evaluates the likelihood of Rho.
advance_rho(s1, out, accept) ==
    IF out.kind = "fail"
    THEN [s1 EXCEPT !.exc = "NumericalInstability"]
    ELSE metropolis(s1, out, accept, count_trial(s1.configs.Rho, accept))

advance(self, out) ==
    advance_rho(redraw(self, self.hist.kernelCalls + 1), out,
                admissible(self.state, out.prop) /\ out.acc)

\* ------------------------------------------------------------- Base_HSDM
\* _setup_configs with one adaptation cycle too many and adapt always on
_setup_configs_extra_cycle(self, truncate, tuning) ==
    [self EXCEPT !.configs =
        [truncate |-> truncate,
         Rho |-> [jump |-> rho_jump, ar_low |-> rho_ar_low, ar_hi |-> rho_ar_hi,
                  adapt_step |-> rho_adapt_step, rejected |-> 0, accepted |-> 0,
                  max_adapt |-> tuning + 1, adapt |-> TRUE]]]

\* _setup_configs: the options that reach self.configs
_setup_configs(self, truncate, tuning) ==
    [self EXCEPT !.configs =
        [truncate |-> truncate,
         Rho |-> [jump |-> rho_jump, ar_low |-> rho_ar_low, ar_hi |-> rho_ar_hi,
                  adapt_step |-> rho_adapt_step, rejected |-> 0, accepted |-> 0,
                  max_adapt |-> tuning, adapt |-> (tuning > 0)]]]

\* 1./x: defined for x # 0; for x = 0 see ZeroDivisions
Reciprocal(x) == IF x[1] = 0 THEN Frac(1, 0) ELSE Frac(x[2], x[1])

\* the two assignments of _setup_truncation, e the eigenvalue range
truncation(self, e, divz) ==
    IF IsZero(e[1]) /\ divz = "raise"
    THEN [self EXCEPT !.exc = "ZeroDivisionError"]
    ELSE IF IsZero(e[2]) /\ divz = "raise"
    THEN [self EXCEPT !.state.Rho_min = Reciprocal(e[1]),
                      !.exc = "ZeroDivisionError"]
    ELSE [self EXCEPT !.state.Rho_min = Reciprocal(e[1]),
                      !.state.Rho_max = Reciprocal(e[2])]

\* _setup_truncation: the bounds of Rho from the eigenvalue range of M
_setup_truncation(self, divz) ==
    truncation(self, speigen_range(self.state.M), divz)

\* _setup_initial_values: the starting values of the sampler
_setup_initial_values(self) ==
    [self EXCEPT !.state.Betas = 0, !.state.Gammas = 0, !.state.Alphas = 0,
                 !.state.Sigma2 = 2, !.state.Tau2 = 2,
                 !.state.Rho = Frac(-1, self.state.J - 1)]

\* the loop of draw: append the current value of each traced parameter
RECURSIVE trace_append(_, _)
trace_append(self, i) ==
    IF i > Len(self.traced_params) THEN self
    ELSE IF \/ self.traced_params[i] \notin DOMAIN self.trace
            \/ self.traced_params[i] \notin DOMAIN self.state
    THEN [self EXCEPT !.exc = "KeyError"]
    ELSE trace_append(
           [self EXCEPT !.trace[self.traced_params[i]] =
                            Append(@, self.state[self.traced_params[i]])],
           i + 1)

\* a draw is complete when every traced parameter has been appended
completed(s2) ==
    IF s2.exc # None THEN s2 ELSE [s2 EXCEPT !.hist.draws = @ + 1]

\* the rest of draw after the kernel's sweep
record(s1) == IF s1.exc # None THEN s1 ELSE completed(trace_append(s1, 1))

\* draw with the appends made before the kernel's sweep
draw_append_first(self, out) == completed(advance(trace_append(self, 1), out))

\* draw: one sweep of the kernel, then one value appended per traced parameter
draw(self, out) == record(advance(self, out))

\* the while loop of sample; outs[i] is what the kernel does in the i-th draw
RECURSIVE sample_loop(_, _, _, _)
sample_next(s1, ndraws, outs, i) ==
    IF s1.exc # None THEN s1 ELSE sample_loop(s1, ndraws - 1, outs, i + 1)

\* the loop of sample stopping one draw early (while ndraws > 1)
sample_loop_short(self, ndraws, outs, i) ==
    IF ndraws > 1 THEN sample_next(draw(self, outs[i]), ndraws, outs, i) ELSE self

sample_loop(self, ndraws, outs, i) ==
    IF ndraws > 0 THEN sample_next(draw(self, outs[i]), ndraws, outs, i) ELSE self

\* the end of sample: with pop the name copy is looked up, and the module
\* never imports it
sample_pop(s1, pop) ==
    IF s1.exc # None THEN s1
    ELSE IF pop THEN [s1 EXCEPT !.exc = "NameError", !.hist.popped = TRUE]
    ELSE s1

\* sample(ndraws, pop)
sample(self, ndraws, pop, outs) ==
    sample_pop(sample_loop(self, ndraws, outs, 1), pop)

\* the object after the first assignments of __init__
new_object(a) ==
    [state |-> [NoState EXCEPT !.M = a.M, !.J = a.M.J],
     configs |-> NoConfigs, trace |-> <<>>, traced_params |-> SAMPLERS,
     cycles |-> 0, hist |-> NoHist, exc |-> None, ret |-> NoRet]

\* self.trace.update({k:[] for k in self.traced_params})
new_trace(s0) == [s0 EXCEPT !.trace = [k \in Range(s0.traced_params) |-> <<>>]]

\* the end of __init__: the starting values, cycles = 0, sample(n_samples)
first_sample(s3, a, outs) ==
    IF s3.exc # None THEN s3
    ELSE sample([_setup_initial_values(s3) EXCEPT !.cycles = 0],
                a.n_samples, FALSE, outs)

\* Base_HSDM.__init__: extra_tracked_params is a name the method never binds.
\* _setup_data only stores priors and cross-products, which nothing here reads.
Base_HSDM_init(a, outs, divz) ==
    IF a.extra_tracked_params.given
    THEN [new_object(a) EXCEPT !.exc = "NameError"]
    ELSE first_sample(
           _setup_truncation(
             _setup_configs(new_trace(new_object(a)), a.truncate, a.tuning),
             divz),
           a, outs)

\* HSDM.__init__: the row count of X must be the unit count of W.  It sets
\* _verbose before Base_HSDM.__init__ runs, so the read of it in sample
\* succeeds; the countdown it gates only prints.
HSDM_init(a, outs, divz) ==
    IF ~a.dimsOK
    THEN [state |-> NoState, configs |-> NoConfigs, trace |-> <<>>,
          traced_params |-> <<>>, cycles |-> 0, hist |-> NoHist,
          exc |-> "UserWarning", ret |-> NoRet]
    ELSE Base_HSDM_init(a, outs, divz)

\* --------------------------------------------------------------- actions
Init ==
    /\ pc = "new"
    /\ args = NoArgs
    /\ state = NoState
    /\ configs = NoConfigs
    /\ trace = <<>>
    /\ traced_params = <<>>
    /\ cycles = 0
    /\ hist = NoHist
    /\ lastCall = [op |-> "none", ndraws |-> 0, pop |-> FALSE, startLen |-> 0,
                   startDraws |-> 0, startCalls |-> 0, exc |-> None, ret |-> NoRet]

Store(s) ==
    /\ state' = s.state
    /\ configs' = s.configs
    /\ trace' = s.trace
    /\ traced_params' = s.traced_params
    /\ cycles' = s.cycles
    /\ hist' = s.hist

Constructed(a, s) ==
    /\ Store(s)
    /\ args' = a
    /\ pc' = IF s.exc = None THEN "ready" ELSE "failed"
    /\ lastCall' = [op |-> "init", ndraws |-> a.n_samples, pop |-> FALSE,
                    startLen |-> 0, startDraws |-> 0, startCalls |-> 0,
                    exc |-> s.exc, ret |-> s.ret]

\* HSDM(y, X, W, M, ..., n_samples, **options)
Construct ==
    /\ pc = "new"
    /\ \E a \in Args, divz \in ZeroDivisions :
         \E outs \in [1..a.n_samples -> Outcomes] :
           Constructed(a, HSDM_init(a, outs, divz))

Sampled(ndraws, pop, s) ==
    /\ Store(s)
    /\ lastCall' = [op |-> "sample", ndraws |-> ndraws, pop |-> pop,
                    startLen |-> Len(trace["Rho"]), startDraws |-> hist.draws,
                    startCalls |-> hist.kernelCalls, exc |-> s.exc, ret |-> s.ret]
    /\ UNCHANGED <<pc, args>>

\* model.sample(ndraws, pop)
Sample ==
    /\ pc = "ready"
    /\ \E ndraws \in 0..MaxN, pop \in BOOLEAN :
         /\ hist.kernelCalls + ndraws <= MaxCalls
         /\ \E outs \in [1..ndraws -> Outcomes] :
              Sampled(ndraws, pop, sample(Self, ndraws, pop, outs))

Next == Construct \/ Sample

Spec == Init /\ [][Next]_vars


\* ---------------------------------------------------------------- claims
Tracked == Range(SAMPLERS)

Called == lastCall.op \in {"init", "sample"}

DrawsDone == hist.draws - lastCall.startDraws

SweepsTried == hist.kernelCalls - lastCall.startCalls

\* C1: after sample(n) from an empty trace every tracked parameter has a
\* recorded sequence of length exactly n and, as long as no detach was asked
\* for, all tracked parameters have the same length, the number of draws
\* completed since construction (the constructor's n_samples included).
TraceLengthInvariant ==
    (pc = "ready" /\ ~hist.popped) =>
        /\ \A p \in Tracked : p \in DOMAIN trace /\ Len(trace[p]) = hist.draws
        /\ (lastCall.exc = None /\ lastCall.startLen = 0) =>
               \A p \in Tracked : Len(trace[p]) = lastCall.ndraws

TraceLengthWitness ==
    /\ pc = "ready"
    /\ ~hist.popped
    /\ args.n_samples = 1
    /\ lastCall.op = "sample"
    /\ lastCall.exc = None
    /\ lastCall.ndraws = 2
    /\ \A p \in Tracked : Len(trace[p]) = 3

\* C2: sample(ndraws, pop=True) completes its draws and returns a copy of
\* the whole accumulated trace.
SampleDetachReturnsTrace ==
    (lastCall.op = "sample" /\ lastCall.pop /\ DrawsDone = lastCall.ndraws) =>
        /\ lastCall.exc = None
        /\ lastCall.ret.given
        /\ \A p \in Tracked :
             Len(lastCall.ret.value[p]) = lastCall.startLen + lastCall.ndraws

\* C3: after a detach the live trace holds an empty sequence for every
\* tracked parameter.
DetachEmptiesTrace ==
    (lastCall.op = "sample" /\ lastCall.pop /\ DrawsDone = lastCall.ndraws) =>
        \A p \in Tracked : p \in DOMAIN trace /\ trace[p] = <<>>

\* C4: after every completed draw Rho_min < Rho <= Rho_max, for the current
\* Rho and for every recorded Rho, and the bounds are the ones set at
\* initialisation.
RhoInDomain ==
    (pc = "ready" /\ hist.draws > 0) =>
        /\ state.Rho_min = Reciprocal(speigen_range(args.M)[1])
        /\ state.Rho_max = Reciprocal(speigen_range(args.M)[2])
        /\ Lt(state.Rho_min, state.Rho) /\ Le(state.Rho, state.Rho_max)
        /\ \A i \in 1..Len(trace["Rho"]) :
             Lt(state.Rho_min, trace["Rho"][i]) /\ Le(trace["Rho"][i], state.Rho_max)

\* C5: truncate selects the domain of Rho: 'eigs' the reciprocal eigenvalue
\* range of M, 'stable' the interval (-1, 1), a pair exactly that pair.
TruncateSelectsDomain ==
    pc = "ready" =>
        <<state.Rho_min, state.Rho_max>> =
            CASE args.truncate.kind = "eigs" ->
                   <<Reciprocal(speigen_range(args.M)[1]),
                     Reciprocal(speigen_range(args.M)[2])>>
              [] args.truncate.kind = "stable" -> <<Frac(-1, 1), Frac(1, 1)>>
              [] args.truncate.kind = "pair" -> <<args.truncate.low, args.truncate.high>>

\* C6: with extra tracked parameters configured, construction succeeds and
\* every draw records the six standard parameters followed by the extras.
ExtrasAreTraced ==
    (pc # "new" /\ args.dimsOK /\ args.extra_tracked_params.given) =>
        /\ lastCall.exc # "NameError"
        /\ traced_params = SAMPLERS \o args.extra_tracked_params.names
        /\ \A p \in Range(traced_params) :
             p \in DOMAIN trace /\ Len(trace[p]) = hist.draws

\* C7: a zero extremal eigenvalue of M makes the bound computation fail, no
\* infinite bound is produced and construction aborts before any draw.
ZeroEigenvalueAborts ==
    (/\ pc # "new"
     /\ args.dimsOK
     /\ ~args.extra_tracked_params.given
     /\ \/ IsZero(speigen_range(args.M)[1])
        \/ IsZero(speigen_range(args.M)[2])) =>
        /\ pc = "failed"
        /\ lastCall.exc = "ZeroDivisionError"
        /\ ~IsInf(state.Rho_min) /\ ~IsInf(state.Rho_max)
        /\ hist.kernelCalls = 0
        /\ \A p \in Tracked : trace[p] = <<>>

\* C8: a draw is atomic for the trace: a sweep that fails raises out of
\* sample and appends nothing, a sweep that completes appends one value to
\* every traced parameter.
DrawAtomic ==
    (Called /\ trace # <<>>) =>
        /\ \A p \in Range(traced_params) :
             Len(trace[p]) = lastCall.startLen + DrawsDone
        /\ SweepsTried - DrawsDone \in {0, 1}
        /\ SweepsTried - DrawsDone = 1 <=> lastCall.exc = "NumericalInstability"
        /\ lastCall.exc = "NumericalInstability" => DrawsDone < lastCall.ndraws
        /\ lastCall.exc \in {None, "NameError"} => DrawsDone = lastCall.ndraws

DrawAtomicWitness ==
    /\ lastCall.op = "sample"
    /\ lastCall.exc = "NumericalInstability"
    /\ lastCall.ndraws = 2
    /\ lastCall.startLen = 1
    /\ DrawsDone = 1
    /\ \A p \in Tracked : Len(trace[p]) = 2

\* C9: with tuning = k the proposal scale changes at most k times, it is
\* constant once k adaptation cycles are over, and with tuning = 0 it stays
\* the configured rho_jump.
JumpAdaptationBounded ==
    /\ [](configs # NoConfigs =>
            /\ hist.jumpChanges <= args.tuning
            /\ args.tuning = 0 => configs.Rho.jump = rho_jump)
    /\ [][(pc = "ready" /\ cycles >= args.tuning * CycleLen) =>
            configs'.Rho.jump = configs.Rho.jump]_vars

JumpAdaptationWitness ==
    /\ pc = "ready"
    /\ args.tuning = 1
    /\ hist.jumpChanges = 1
    /\ cycles = 3
    /\ configs.Rho.jump # rho_jump

\* C10: the starting value Rho = -1/(J-1) lies strictly inside
\* (Rho_min, Rho_max) for every row-standardised M with J >= 2.
StartInsideDomain ==
    (pc = "ready" /\ hist.kernelCalls = 0 /\ ZeroDiagonal(args.M)) =>
        Lt(state.Rho_min, state.Rho) /\ Lt(state.Rho, state.Rho_max)

====
